---- MODULE Spec2Model ----
(***************************************************************************)
(* A model of queue.c: a double-ended queue of strings kept as a circular  *)
(* doubly-linked list (struct list_head) anchored at a sentinel.           *)
(*                                                                         *)
(* The heap is modelled at pointer level: every struct list_head has an    *)
(* address, `next` and `prev` map addresses to addresses, `value` maps an  *)
(* element's address to its string.  Each public function of queue.c is a  *)
(* pure operator from heap to heap (named as in the source) and one action *)
(* that calls it on the caller's queue pointer `q`.                        *)
(***************************************************************************)
EXTENDS Integers, Sequences, FiniteSets, TLC

\* ------------------------------------------------------------------ bounds
\* Number of element_t objects the allocator can hand out at one time.
MaxNodes == 3
\* Largest bufsize a caller passes to q_remove_head / q_remove_tail.
MaxBuf == 3
\* Width of size_t in bits (the model's machine is narrower than the real one;
\* the arithmetic is the same modulo 2^SizeBits).
SizeBits == 8

\* ------------------------------------------------------------ addresses
\* The null pointer.  next/prev are total over Addr so that a pointer that is
\* NULL can be stored and compared; the code never dereferences it.
NULL == -1
\* The address of the sentinel struct list_head that q_new allocates.
Sentinel == 0
\* The addresses the allocator hands out in the general specification.
Pool == 1..MaxNodes
\* The addresses of element_t objects: the pool, and at least the six that the
\* documented examples (a queue of "a" .. "f") need.
Elems == 1..(IF MaxNodes > 6 THEN MaxNodes ELSE 6)
Nodes == {Sentinel} \cup Elems
Addr == {NULL} \cup Nodes

\* C's bool results.
true == 1
false == 0

\* ---------------------------------------------------------------- strings
\* A string is the sequence of its characters before the terminator; the
\* characters are 1 ("a") and 2 ("b").  The strings callers insert, "a", "ab"
\* and "b": one a proper prefix of another, two that differ at the first
\* character, and (inserted twice) equal ones.
Texts == { <<1>>, <<1, 2>>, <<2>> }

\* strcmp(3): the sign of the first differing character, a proper prefix
\* comparing smaller.
RECURSIVE strcmp(_, _)
strcmp(a, b) ==
    IF a = <<>> /\ b = <<>> THEN 0
    ELSE IF a = <<>> THEN -1
    ELSE IF b = <<>> THEN 1
    ELSE IF Head(a) < Head(b) THEN -1
    ELSE IF Head(a) > Head(b) THEN 1
    ELSE strcmp(Tail(a), Tail(b))

RECURSIVE Pow2(_)
Pow2(n) == IF n = 0 THEN 1 ELSE 2 * Pow2(n - 1)
\* SIZE_MAX + 1
SizeMod == Pow2(SizeBits)

Min(a, b) == IF a < b THEN a ELSE b

\* ------------------------------------------------------------------ state
VARIABLES
    q,        \* the caller's queue pointer: NULL or Sentinel
    next,     \* next[n]: struct list_head.next of the node at address n
    prev,     \* prev[n]: struct list_head.prev
    value,    \* value[e]: element_t.value of the element at address e
    live,     \* live[n]: the object at n is allocated
    badFree,  \* some free() was given an object that was not allocated
    hang,     \* some loop of the code did not reach its exit condition
    held,     \* elements returned by q_remove_* the caller has not released
    lastOp,   \* the function called last
    ret,      \* what it returned
    arg,      \* the string s it was given (q_insert_*), else <<>>
    pre,      \* the elements linked in the ring, in order, before the call
    sp,       \* q_remove_*: a non-null buffer was passed
    bufsize,  \* q_remove_*: the bufsize passed
    wrLast,   \* q_remove_*: highest buffer index written, -1 when none
    spText,   \* q_remove_*: the string left in the buffer
    fault,    \* q_new / q_insert_*: the allocation that failed, or "none"
    rt,       \* q_remove_head right after a successful q_insert_head: what
              \* was inserted and the ring before it; q_reverse right after
              \* q_reverse: the ring before the first (on = FALSE otherwise)
    crashed   \* the call wrote outside its buffer and did not return

vars == <<q, next, prev, value, live, badFree, hang, held, lastOp, ret, arg,
          pre, sp, bufsize, wrLast, spText, fault, rt, crashed>>

\* The heap as one value, the argument and result of the operators below.
Heap == [next |-> next, prev |-> prev, value |-> value, live |-> live,
         badFree |-> badFree, hang |-> hang]

SetHeap(h) ==
    /\ next' = h.next
    /\ prev' = h.prev
    /\ value' = h.value
    /\ live' = h.live
    /\ badFree' = h.badFree
    /\ hang' = h.hang

\* Every loop below is a recursive operator with a step budget larger than any
\* traversal of a consistent ring needs; a loop that uses it up sets hang.
LoopFuel == 2 * Cardinality(Elems) + 4

\* ---------------------------------------------------------------- malloc
\* malloc(sizeof(element_t)) / malloc(sizeof(struct list_head)): the object at
\* address n becomes allocated; its fields are not initialised (the model
\* keeps NULL / <<>> there, the code writes them before reading them).
malloc(h, n) == [h EXCEPT !.live[n] = TRUE]

\* free(p): the object is gone; its fields are cleared so that two heaps that
\* differ only in freed memory are the same state.
free(h, n) ==
    [h EXCEPT !.badFree = h.badFree \/ ~h.live[n],
              !.live[n] = FALSE,
              !.next[n] = NULL,
              !.prev[n] = NULL,
              !.value[n] = <<>>]

\* ------------------------------------------------------------------ list.h
INIT_LIST_HEAD(h, head) ==
    [h EXCEPT !.next[head] = head, !.prev[head] = head]

\* list_add: link node immediately after head.
list_add(h, node, head) ==
    LET nxt == h.next[head]
        h1 == [h EXCEPT !.prev[nxt] = node]
        h2 == [h1 EXCEPT !.next[node] = nxt]
        h3 == [h2 EXCEPT !.prev[node] = head]
    IN  [h3 EXCEPT !.next[head] = node]

\* list_add_tail: link node immediately before head.
list_add_tail(h, node, head) ==
    LET prv == h.prev[head]
        h1 == [h EXCEPT !.next[prv] = node]
        h2 == [h1 EXCEPT !.next[node] = head]
        h3 == [h2 EXCEPT !.prev[node] = prv]
    IN  [h3 EXCEPT !.prev[head] = node]

\* list_del: unlink node from its ring.
list_del(h, node) ==
    LET nxt == h.next[node]
        prv == h.prev[node]
        h1 == [h EXCEPT !.prev[nxt] = prv]
    IN  [h1 EXCEPT !.next[prv] = nxt]

\* list_del_init: unlink node and leave it self-referential.
list_del_init(h, node) == INIT_LIST_HEAD(list_del(h, node), node)

\* list_move: unlink node and link it immediately after head.
list_move(h, node, head) == list_add(list_del(h, node), node, head)

list_empty(h, head) == h.next[head] = head

list_is_singular(h, head) ==
    ~list_empty(h, head) /\ h.prev[head] = h.next[head]

\* list_for_each (li, head): the nodes visited, in order.
RECURSIVE list_for_each(_, _, _, _)
list_for_each(h, head, li, fuel) ==
    IF li = head \/ li = NULL \/ fuel = 0 THEN <<>>
    ELSE <<li>> \o list_for_each(h, head, h.next[li], fuel - 1)

\* The elements linked in the ring of the queue at `head`, in traversal order.
Ring(h, head) ==
    IF head = NULL THEN <<>>
    ELSE list_for_each(h, head, h.next[head], LoopFuel)

RingNow == Ring(Heap, q)

\* ------------------------------------------------------------- queue.c
\* q_new; p is what malloc returned (NULL when it failed).
q_new(h, p) ==
    IF p = NULL THEN [h |-> h, ret |-> NULL]
    ELSE [h |-> INIT_LIST_HEAD(malloc(h, p), p), ret |-> p]

\* q_release_element: free(e->value); free(e).
q_release_element(h, e) == free([h EXCEPT !.value[e] = <<>>], e)

\* The loop of q_free walking the ring without releasing the entries.
RECURSIVE q_free_loop_keep(_, _, _, _, _)
q_free_loop_keep(h, head, cur, safe, fuel) ==
    IF cur = head \/ fuel = 0 THEN h
    ELSE q_free_loop_keep(h, head, safe, h.next[safe], fuel - 1)

\* The list_for_each_entry_safe loop of q_free: cur is released, then the
\* loop moves to the entry saved in safe.
RECURSIVE q_free_loop(_, _, _, _, _)
q_free_loop(h, head, cur, safe, fuel) ==
    IF cur = head THEN h
    ELSE IF fuel = 0 THEN [h EXCEPT !.hang = TRUE]
    ELSE LET h1 == q_release_element(h, cur)
         IN  q_free_loop(h1, head, safe, h1.next[safe], fuel - 1)

q_free(h, head) ==
    IF head = NULL THEN h
    ELSE LET first == h.next[head]
         IN  free(q_free_loop(h, head, first, h.next[first], LoopFuel), head)

\* The tail of q_insert_head / q_insert_tail after the null check on head:
\* p is what malloc returned, dup tells whether strdup succeeded.  The result
\* is the heap and the element ready to be linked (NULL: return false).
\* new_element returning on strdup failure without releasing the element.
new_element_leak(h, s, p, dup) ==
    IF p = NULL THEN [h |-> h, at |-> NULL]
    ELSE LET h1 == malloc(h, p)
         IN  IF ~dup
             THEN [h |-> h1, at |-> NULL]
             ELSE [h |-> [h1 EXCEPT !.value[p] = s], at |-> p]

new_element(h, s, p, dup) ==
    IF p = NULL THEN [h |-> h, at |-> NULL]
    ELSE LET h1 == malloc(h, p)
         IN  IF ~dup
             THEN [h |-> q_release_element(h1, p), at |-> NULL]
             ELSE [h |-> [h1 EXCEPT !.value[p] = s], at |-> p]

\* q_insert_head linking the new element with list_add_tail.
q_insert_head_at_tail(h, head, s, p, dup) ==
    IF head = NULL THEN [h |-> h, ret |-> false]
    ELSE LET e == new_element(h, s, p, dup)
         IN  IF e.at = NULL THEN [h |-> e.h, ret |-> false]
             ELSE [h |-> list_add_tail(e.h, e.at, head), ret |-> true]

q_insert_head(h, head, s, p, dup) ==
    IF head = NULL THEN [h |-> h, ret |-> false]
    ELSE LET e == new_element(h, s, p, dup)
         IN  IF e.at = NULL THEN [h |-> e.h, ret |-> false]
             ELSE [h |-> list_add(e.h, e.at, head), ret |-> true]

q_insert_tail(h, head, s, p, dup) ==
    IF head = NULL THEN [h |-> h, ret |-> false]
    ELSE LET e == new_element(h, s, p, dup)
         IN  IF e.at = NULL THEN [h |-> e.h, ret |-> false]
             ELSE [h |-> list_add_tail(e.h, e.at, head), ret |-> true]

\* bufsize - 1 in size_t.
copy_count(bufsz) == (bufsz - 1) % SizeMod

\* strncpy(sp, value, bufsize - 1); sp[bufsize - 1] = '\0'.  strncpy writes
\* exactly n characters at sp[0 .. n-1] (the string, then padding), the
\* assignment writes sp[n].  wrLast is the highest index written, text the
\* string the buffer then holds.
copy_out(s, bufsz) ==
    LET n == copy_count(bufsz)
    IN  [wrLast |-> n, text |-> SubSeq(s, 1, Min(Len(s), n))]

\* q_remove_head without the list_empty test.
q_remove_head_no_empty(h, head) ==
    IF head = NULL THEN [h |-> h, ret |-> NULL]
    ELSE LET removed_node == h.next[head]
         IN  [h |-> list_del_init(h, removed_node), ret |-> removed_node]

\* q_remove_head up to the unlink: the heap and the element removed.
q_remove_head(h, head) ==
    IF head = NULL \/ list_empty(h, head) THEN [h |-> h, ret |-> NULL]
    ELSE LET removed_node == h.next[head]
         IN  [h |-> list_del_init(h, removed_node), ret |-> removed_node]

\* q_remove_tail taking list_first_entry, as q_remove_head does.
q_remove_tail_first(h, head) ==
    IF head = NULL \/ list_empty(h, head) THEN [h |-> h, ret |-> NULL]
    ELSE LET removed_node == h.next[head]
         IN  [h |-> list_del_init(h, removed_node), ret |-> removed_node]

q_remove_tail(h, head) ==
    IF head = NULL \/ list_empty(h, head) THEN [h |-> h, ret |-> NULL]
    ELSE LET removed_node == h.prev[head]
         IN  [h |-> list_del_init(h, removed_node), ret |-> removed_node]

\* q_size with the traversal started one node late.
q_size_late(h, head) ==
    IF head = NULL THEN 0
    ELSE Len(list_for_each(h, head, h.next[h.next[head]], LoopFuel))

q_size(h, head) ==
    IF head = NULL THEN 0
    ELSE Len(list_for_each(h, head, h.next[head], LoopFuel))

\* The loop of q_delete_mid stopping only when fast_ptr is head.
RECURSIVE q_delete_mid_loop_to_head(_, _, _, _, _)
q_delete_mid_loop_to_head(h, head, fast_ptr, slow_ptr, fuel) ==
    IF fast_ptr # head
    THEN IF fuel = 0 THEN [h |-> [h EXCEPT !.hang = TRUE], at |-> slow_ptr]
         ELSE q_delete_mid_loop_to_head(h, head, h.next[h.next[fast_ptr]],
                                        h.next[slow_ptr], fuel - 1)
    ELSE [h |-> h, at |-> slow_ptr]

\* The fast/slow loop of q_delete_mid; the result is slow_ptr.
RECURSIVE q_delete_mid_loop(_, _, _, _, _)
q_delete_mid_loop(h, head, fast_ptr, slow_ptr, fuel) ==
    IF fast_ptr # head /\ fast_ptr # h.prev[head]
    THEN IF fuel = 0 THEN [h |-> [h EXCEPT !.hang = TRUE], at |-> slow_ptr]
         ELSE q_delete_mid_loop(h, head, h.next[h.next[fast_ptr]],
                                h.next[slow_ptr], fuel - 1)
    ELSE [h |-> h, at |-> slow_ptr]

\* q_delete_mid with fast_ptr started at head->next->next.
q_delete_mid_fast_ahead(h, head) ==
    IF head = NULL \/ list_empty(h, head) THEN [h |-> h, ret |-> false]
    ELSE LET m == q_delete_mid_loop(h, head, h.next[h.next[head]], h.next[head],
                                    LoopFuel)
             h1 == list_del_init(m.h, m.at)
         IN  [h |-> q_release_element(h1, m.at), ret |-> true]

\* q_delete_mid unlinking the middle element without releasing it.
q_delete_mid_unlink(h, head) ==
    IF head = NULL \/ list_empty(h, head) THEN [h |-> h, ret |-> false]
    ELSE LET m == q_delete_mid_loop(h, head, h.next[head], h.next[head], LoopFuel)
         IN  [h |-> list_del_init(m.h, m.at), ret |-> true]

q_delete_mid(h, head) ==
    IF head = NULL \/ list_empty(h, head) THEN [h |-> h, ret |-> false]
    ELSE LET m == q_delete_mid_loop(h, head, h.next[head], h.next[head], LoopFuel)
             h1 == list_del_init(m.h, m.at)
         IN  [h |-> q_release_element(h1, m.at), ret |-> true]

\* The loop of q_swap advancing two nodes after each exchange.
RECURSIVE q_swap_loop_skip(_, _, _, _)
q_swap_loop_skip(h, head, node, fuel) ==
    IF node # head /\ h.next[node] # head /\ fuel > 0
    THEN LET next_node == h.next[node]
             h1 == list_add(list_del_init(h, node), node, next_node)
         IN  q_swap_loop_skip(h1, head, h1.next[h1.next[node]], fuel - 1)
    ELSE h

\* The loop of q_swap.
RECURSIVE q_swap_loop(_, _, _, _)
q_swap_loop(h, head, node, fuel) ==
    IF node # head /\ h.next[node] # head
    THEN IF fuel = 0 THEN [h EXCEPT !.hang = TRUE]
         ELSE LET next_node == h.next[node]
                  h1 == list_add(list_del_init(h, node), node, next_node)
              IN  q_swap_loop(h1, head, h1.next[node], fuel - 1)
    ELSE h

q_swap(h, head) ==
    IF head = NULL THEN h
    ELSE q_swap_loop(h, head, h.next[head], LoopFuel)

\* The loop of q_reverse moving each node to the tail instead of the front.
RECURSIVE q_reverse_loop_tail(_, _, _, _, _)
q_reverse_loop_tail(h, head, node, safe, fuel) ==
    IF node = head \/ fuel = 0 THEN h
    ELSE LET h1 == list_add_tail(list_del(h, node), node, head)
         IN  q_reverse_loop_tail(h1, head, safe, h1.next[safe], fuel - 1)

\* The list_for_each_safe loop of q_reverse.
RECURSIVE q_reverse_loop(_, _, _, _, _)
q_reverse_loop(h, head, node, safe, fuel) ==
    IF node = head THEN h
    ELSE IF fuel = 0 THEN [h EXCEPT !.hang = TRUE]
    ELSE LET h1 == list_move(h, node, head)
         IN  q_reverse_loop(h1, head, safe, h1.next[safe], fuel - 1)

q_reverse(h, head) ==
    IF head = NULL \/ list_empty(h, head) THEN h
    ELSE LET first == h.next[head]
         IN  q_reverse_loop(h, head, first, h.next[first], LoopFuel)

\* ---------------------------------------------------------------- sorting
\* mergeTwoLists, the choice of node: &left when left's string is smaller,
\* else &right (also when the two compare equal).
\* merge_node with the comparison turned round.
merge_node_greater(h, left, right) ==
    IF strcmp(h.value[left], h.value[right]) > 0 THEN left ELSE right

\* merge_node taking &left also when the two strings compare equal.
merge_node_stable(h, left, right) ==
    IF strcmp(h.value[left], h.value[right]) <= 0 THEN left ELSE right

merge_node(h, left, right) ==
    IF strcmp(h.value[left], h.value[right]) < 0 THEN left ELSE right

\* mergeTwoLists, the final *ptr = left | right: at most one is non-null.
\* merge_rest appending the left chain only.
merge_rest_left(left, right) == left

merge_rest(left, right) == IF left = NULL THEN right ELSE left

\* *ptr = x, where ptr is &head (tail = NULL) or &tail->next.
RECURSIVE merge_loop(_, _, _, _, _, _)
merge_loop(h, left, right, head, tail, fuel) ==
    IF left # NULL /\ right # NULL
    THEN IF fuel = 0 THEN [h |-> [h EXCEPT !.hang = TRUE], at |-> head]
         ELSE LET node == merge_node(h, left, right)
                  h1 == IF tail = NULL THEN h ELSE [h EXCEPT !.next[tail] = node]
                  head1 == IF tail = NULL THEN node ELSE head
                  after == h1.next[node]
              IN  merge_loop(h1,
                             IF node = left THEN after ELSE left,
                             IF node = left THEN right ELSE after,
                             head1, node, fuel - 1)
    ELSE LET rest == merge_rest(left, right)
         IN  IF tail = NULL THEN [h |-> h, at |-> rest]
             ELSE [h |-> [h EXCEPT !.next[tail] = rest], at |-> head]

mergeTwoLists(h, left, right) == merge_loop(h, left, right, NULL, NULL, LoopFuel)

\* The fast/slow loop of mergesort; the result is slow.
RECURSIVE mergesort_loop(_, _, _, _)
mergesort_loop(h, fast, slow, fuel) ==
    IF fast # NULL /\ h.next[fast] # NULL
    THEN IF fuel = 0 THEN [hang |-> TRUE, at |-> slow]
         ELSE mergesort_loop(h, h.next[h.next[fast]], h.next[slow], fuel - 1)
    ELSE [hang |-> FALSE, at |-> slow]

\* mergesort on the null-terminated chain at head; depth bounds the recursion.
RECURSIVE mergesort(_, _, _)
mergesort(h, head, depth) ==
    IF head = NULL \/ h.next[head] = NULL THEN [h |-> h, at |-> head]
    ELSE IF depth = 0 THEN [h |-> [h EXCEPT !.hang = TRUE], at |-> head]
    ELSE LET loop == mergesort_loop(h, head, head, LoopFuel)
             slow == loop.at
             mid == slow
             h1 == [h EXCEPT !.next[h.prev[slow]] = NULL]
             left == mergesort(h1, head, depth - 1)
             right == mergesort(left.h, mid, depth - 1)
         IN  IF loop.hang THEN [h |-> [h EXCEPT !.hang = TRUE], at |-> head]
             ELSE mergeTwoLists(right.h, left.at, right.at)

\* The loop of q_sort that restores the prev links along the sorted chain;
\* the result is the last node of the chain (*ptr when the loop ends).
\* q_sort's last loop walking the chain without writing the prev links.
RECURSIVE q_sort_loop_noprev(_, _, _)
q_sort_loop_noprev(h, p, fuel) ==
    IF h.next[p] # NULL /\ fuel > 0
    THEN q_sort_loop_noprev(h, h.next[p], fuel - 1)
    ELSE [h |-> h, at |-> p]

RECURSIVE q_sort_loop(_, _, _)
q_sort_loop(h, p, fuel) ==
    IF h.next[p] # NULL
    THEN IF fuel = 0 THEN [h |-> [h EXCEPT !.hang = TRUE], at |-> p]
         ELSE q_sort_loop([h EXCEPT !.prev[h.next[p]] = p], h.next[p], fuel - 1)
    ELSE [h |-> h, at |-> p]

\* q_sort after the sort proper: fix the prev links and close the ring.
q_sort_relink(h, head) ==
    LET r == q_sort_loop(h, head, LoopFuel)
        h1 == [r.h EXCEPT !.next[r.at] = head]
    IN  [h1 EXCEPT !.prev[head] = r.at]

q_sort(h, head) ==
    IF head = NULL \/ list_empty(h, head) \/ list_is_singular(h, head) THEN h
    ELSE LET h1 == [h EXCEPT !.next[h.prev[head]] = NULL]
             m == mergesort(h1, h1.next[head], LoopFuel)
             h2 == [m.h EXCEPT !.next[head] = m.at]
         IN  q_sort_relink(h2, head)

\* ---------------------------------------------------------- q_delete_dup
\* The test of q_delete_dup's loop body: slow has a successor in the ring and
\* its string equals the successor's.
dup_of_next(h, head, slow, fast) ==
    h.next[slow] # head /\ strcmp(h.value[slow], h.value[fast]) = 0

RECURSIVE q_delete_dup_loop(_, _, _, _, _)
q_delete_dup_loop(h, head, slow, fast, fuel) ==
    IF slow = head THEN h
    ELSE IF fuel = 0 THEN [h EXCEPT !.hang = TRUE]
    ELSE LET h1 == IF dup_of_next(h, head, slow, fast)
                   THEN q_release_element(list_del_init(h, slow), slow)
                   ELSE h
         IN  q_delete_dup_loop(h1, head, fast, h1.next[fast], fuel - 1)

\* q_delete_dup running its loop on the ring as it stands, without q_sort.
q_delete_dup_unsorted(h, head) ==
    IF head = NULL THEN [h |-> h, ret |-> false]
    ELSE LET first == h.next[head]
         IN  [h |-> q_delete_dup_loop(h, head, first, h.next[first], LoopFuel),
              ret |-> true]

q_delete_dup(h, head) ==
    IF head = NULL THEN [h |-> h, ret |-> false]
    ELSE LET h1 == q_sort(h, head)
             first == h1.next[head]
         IN  [h |-> q_delete_dup_loop(h1, head, first, h1.next[first], LoopFuel),
              ret |-> true]

\* ---------------------------------------------------------------- actions
\* What malloc(sizeof(element_t)) can return: NULL, or an address not in use.
MallocResults == {NULL} \cup {e \in Pool : ~live[e]}

\* The (sp, bufsize) pairs callers pass to q_remove_*: no buffer, or a buffer
\* of bufsize bytes.
RemoveArgs == {<<FALSE, 0>>} \cup {<<TRUE, n>> : n \in 0..MaxBuf}

EmptyHeap ==
    [next |-> [n \in Addr |-> NULL], prev |-> [n \in Addr |-> NULL],
     value |-> [n \in Addr |-> <<>>], live |-> [n \in Addr |-> FALSE],
     badFree |-> FALSE, hang |-> FALSE]

NoRoundTrip == [on |-> FALSE, s |-> <<>>, before |-> <<>>]

\* No buffer was involved in the call.
NoCopy ==
    /\ sp' = FALSE
    /\ bufsize' = 0
    /\ wrLast' = -1
    /\ spText' = <<>>
    /\ crashed' = FALSE

\* No buffer was involved, and the call does not end a round trip.
NoBuffer ==
    /\ NoCopy
    /\ rt' = NoRoundTrip

\* The allocation failure the caller's environment injects into a call that
\* gets p from malloc and dup from strdup.
Fault(p, dup) == IF p = NULL THEN "malloc" ELSE IF ~dup THEN "strdup" ELSE "none"

\* The state after the caller's q = q_new(), whether or not malloc succeeded.
Init ==
    \E p \in {NULL, Sentinel} :
        LET r == q_new(EmptyHeap, p)
        IN  /\ q = r.ret
            /\ next = r.h.next
            /\ prev = r.h.prev
            /\ value = r.h.value
            /\ live = r.h.live
            /\ badFree = r.h.badFree
            /\ hang = r.h.hang
            /\ held = {}
            /\ lastOp = "q_new"
            /\ ret = r.ret
            /\ arg = <<>>
            /\ pre = <<>>
            /\ sp = FALSE
            /\ bufsize = 0
            /\ wrLast = -1
            /\ spText = <<>>
            /\ fault = Fault(p, TRUE)
            /\ rt = NoRoundTrip
            /\ crashed = FALSE

\* q = q_new() by a caller that holds no queue.
Call_q_new ==
    /\ ~crashed
    /\ q = NULL
    /\ \E p \in {NULL, Sentinel} :
        LET r == q_new(Heap, p)
        IN  /\ SetHeap(r.h)
            /\ q' = r.ret
            /\ ret' = r.ret
            /\ fault' = Fault(p, TRUE)
    /\ lastOp' = "q_new"
    /\ arg' = <<>>
    /\ pre' = RingNow
    /\ NoBuffer
    /\ UNCHANGED held

\* q_free(q); the caller then forgets the pointer.
Call_q_free ==
    /\ ~crashed
    /\ SetHeap(q_free(Heap, q))
    /\ q' = NULL
    /\ ret' = 0
    /\ lastOp' = "q_free"
    /\ arg' = <<>>
    /\ fault' = "none"
    /\ pre' = RingNow
    /\ NoBuffer
    /\ UNCHANGED held

Call_q_insert_head ==
    /\ ~crashed
    /\ \E s \in Texts, p \in MallocResults, dup \in BOOLEAN :
        LET r == q_insert_head(Heap, q, s, p, dup)
        IN  /\ SetHeap(r.h)
            /\ ret' = r.ret
            /\ arg' = s
            /\ fault' = Fault(p, dup)
    /\ lastOp' = "q_insert_head"
    /\ pre' = RingNow
    /\ NoBuffer
    /\ UNCHANGED <<q, held>>

Call_q_insert_tail ==
    /\ ~crashed
    /\ \E s \in Texts, p \in MallocResults, dup \in BOOLEAN :
        LET r == q_insert_tail(Heap, q, s, p, dup)
        IN  /\ SetHeap(r.h)
            /\ ret' = r.ret
            /\ arg' = s
            /\ fault' = Fault(p, dup)
    /\ lastOp' = "q_insert_tail"
    /\ pre' = RingNow
    /\ NoBuffer
    /\ UNCHANGED <<q, held>>

\* The part of q_remove_head / q_remove_tail after the unlink: r is the heap
\* and the element unlinked, a the (sp, bufsize) passed.  A call that writes
\* past the bufsize bytes of its buffer does not return.
Removed(r, a) ==
    LET copies == r.ret # NULL /\ a[1]
        c == copy_out(r.h.value[r.ret], a[2])
        over == copies /\ c.wrLast >= a[2]
    IN  /\ SetHeap(r.h)
        /\ sp' = a[1]
        /\ bufsize' = a[2]
        /\ wrLast' = IF copies THEN c.wrLast ELSE -1
        /\ spText' = IF copies THEN c.text ELSE <<>>
        /\ crashed' = over
        /\ ret' = IF over THEN NULL ELSE r.ret
        /\ held' = IF r.ret = NULL \/ over THEN held ELSE held \cup {r.ret}

Call_q_remove_head ==
    /\ ~crashed
    /\ \E a \in RemoveArgs : Removed(q_remove_head(Heap, q), a)
    /\ rt' = IF lastOp = "q_insert_head" /\ ret = true
             THEN [on |-> TRUE, s |-> arg, before |-> pre]
             ELSE NoRoundTrip
    /\ lastOp' = "q_remove_head"
    /\ arg' = <<>>
    /\ fault' = "none"
    /\ pre' = RingNow
    /\ UNCHANGED q

Call_q_remove_tail ==
    /\ ~crashed
    /\ \E a \in RemoveArgs : Removed(q_remove_tail(Heap, q), a)
    /\ rt' = NoRoundTrip
    /\ lastOp' = "q_remove_tail"
    /\ arg' = <<>>
    /\ fault' = "none"
    /\ pre' = RingNow
    /\ UNCHANGED q

\* The caller releases an element it got from q_remove_head / q_remove_tail.
Call_q_release_element ==
    /\ ~crashed
    /\ \E e \in held :
        /\ SetHeap(q_release_element(Heap, e))
        /\ held' = held \ {e}
    /\ ret' = 0
    /\ lastOp' = "q_release_element"
    /\ arg' = <<>>
    /\ fault' = "none"
    /\ pre' = RingNow
    /\ NoBuffer
    /\ UNCHANGED q

Call_q_size ==
    /\ ~crashed
    /\ ret' = q_size(Heap, q)
    /\ lastOp' = "q_size"
    /\ arg' = <<>>
    /\ fault' = "none"
    /\ pre' = RingNow
    /\ NoBuffer
    /\ UNCHANGED <<q, next, prev, value, live, badFree, hang, held>>

Call_q_delete_mid ==
    /\ ~crashed
    /\ LET r == q_delete_mid(Heap, q)
       IN  /\ SetHeap(r.h)
           /\ ret' = r.ret
    /\ lastOp' = "q_delete_mid"
    /\ arg' = <<>>
    /\ fault' = "none"
    /\ pre' = RingNow
    /\ NoBuffer
    /\ UNCHANGED <<q, held>>

Call_q_delete_dup ==
    /\ ~crashed
    /\ LET r == q_delete_dup(Heap, q)
       IN  /\ SetHeap(r.h)
           /\ ret' = r.ret
    /\ lastOp' = "q_delete_dup"
    /\ arg' = <<>>
    /\ fault' = "none"
    /\ pre' = RingNow
    /\ NoBuffer
    /\ UNCHANGED <<q, held>>

Call_q_swap ==
    /\ ~crashed
    /\ SetHeap(q_swap(Heap, q))
    /\ ret' = 0
    /\ lastOp' = "q_swap"
    /\ arg' = <<>>
    /\ fault' = "none"
    /\ pre' = RingNow
    /\ NoBuffer
    /\ UNCHANGED <<q, held>>

Call_q_reverse ==
    /\ ~crashed
    /\ SetHeap(q_reverse(Heap, q))
    /\ ret' = 0
    /\ rt' = IF lastOp = "q_reverse"
             THEN [on |-> TRUE, s |-> <<>>, before |-> pre]
             ELSE NoRoundTrip
    /\ lastOp' = "q_reverse"
    /\ arg' = <<>>
    /\ fault' = "none"
    /\ pre' = RingNow
    /\ NoCopy
    /\ UNCHANGED <<q, held>>

Call_q_sort ==
    /\ ~crashed
    /\ SetHeap(q_sort(Heap, q))
    /\ ret' = 0
    /\ lastOp' = "q_sort"
    /\ arg' = <<>>
    /\ fault' = "none"
    /\ pre' = RingNow
    /\ NoBuffer
    /\ UNCHANGED <<q, held>>

Next ==
    \/ Call_q_new
    \/ Call_q_free
    \/ Call_q_insert_head
    \/ Call_q_insert_tail
    \/ Call_q_remove_head
    \/ Call_q_remove_tail
    \/ Call_q_release_element
    \/ Call_q_size
    \/ Call_q_delete_mid
    \/ Call_q_delete_dup
    \/ Call_q_swap
    \/ Call_q_reverse
    \/ Call_q_sort

Spec == Init /\ [][Next]_vars

\* ------------------------------------------------- the documented examples
\* The queue a caller gets from q_new and n calls of q_insert_tail that
\* succeed, with the strings "a", "b", ... (characters 1, 2, ...), the k-th
\* element at address k.
RECURSIVE LettersHeap(_)
LettersHeap(n) ==
    IF n = 0 THEN q_new(EmptyHeap, Sentinel).h
    ELSE q_insert_tail(LettersHeap(n - 1), Sentinel, <<n>>, n, TRUE).h

\* The state after building the five-element queue "a" .. "e" or the
\* six-element queue "a" .. "f".
InitLetters ==
    \E n \in {5, 6} :
        /\ q = Sentinel
        /\ next = LettersHeap(n).next
        /\ prev = LettersHeap(n).prev
        /\ value = LettersHeap(n).value
        /\ live = LettersHeap(n).live
        /\ badFree = LettersHeap(n).badFree
        /\ hang = LettersHeap(n).hang
        /\ held = {}
        /\ lastOp = "q_insert_tail"
        /\ ret = true
        /\ arg = <<n>>
        /\ pre = [i \in 1..(n - 1) |-> i]
        /\ sp = FALSE
        /\ bufsize = 0
        /\ wrLast = -1
        /\ spText = <<>>
        /\ fault = "none"
        /\ rt = NoRoundTrip
        /\ crashed = FALSE

\* The calls on the example queues: the list algorithms, which allocate
\* nothing.
NextLetters ==
    \/ Call_q_size
    \/ Call_q_delete_mid
    \/ Call_q_delete_dup
    \/ Call_q_swap
    \/ Call_q_reverse
    \/ Call_q_sort

SpecLetters == InitLetters /\ [][NextLetters]_vars

\* ------------------------------------------------------------ properties
SeqSet(sq) == {sq[i] : i \in 1..Len(sq)}

\* The elements that are allocated.
LiveElems == {e \in Elems : live[e]}

\* The elements the queue owns: allocated and not handed to the caller.
Owned == LiveElems \ held

\* The string of each element of a sequence of elements.
TextsOf(h, sq) == [i \in 1..Len(sq) |-> h.value[sq[i]]]

\* node.next.prev == node and node.prev.next == node.
Linked(n) ==
    /\ next[n] \in Nodes
    /\ prev[n] \in Nodes
    /\ prev[next[n]] = n
    /\ next[prev[n]] = n

\* C1: whenever the caller holds a queue, every node of its ring, the sentinel
\* included, satisfies node.next.prev == node and node.prev.next == node, the
\* traversal from sentinel.next comes back to the sentinel, and a queue that
\* owns no element has sentinel.next == sentinel.prev == sentinel.
RingInvariant ==
    q # NULL =>
        /\ \A n \in {q} \cup SeqSet(RingNow) : Linked(n)
        /\ (IF RingNow = <<>> THEN next[q] ELSE next[RingNow[Len(RingNow)]]) = q
        /\ (Owned = {} => next[q] = q /\ prev[q] = q)

\* q_sort has just reordered a ring of three or more elements.
RingInvariantWitness ==
    /\ lastOp = "q_sort"
    /\ Len(pre) >= 3
    /\ RingNow # pre
    /\ RingInvariant

\* C2: q_size returns the number of elements linked in the ring, which are
\* exactly the elements the queue owns (inserted and neither removed nor
\* deleted since), and 0 for a null or empty queue.
SizeIsLinkedCount ==
    lastOp = "q_size" =>
        /\ SeqSet(RingNow) = Owned
        /\ ret = Cardinality(Owned)
        /\ (q = NULL \/ next[q] = q => ret = 0)

\* q_size has counted two or more linked elements while the allocator still
\* had an address to hand out.
SizeIsLinkedCountWitness ==
    /\ lastOp = "q_size"
    /\ ret >= 2
    /\ Cardinality(LiveElems) < MaxNodes

\* C3: when q_remove_head returns right after a successful q_insert_head(s),
\* the element returned holds s, the caller owns it, and the ring holds the
\* elements it held before the insert, in the same order.
InsertRemoveRoundTrip ==
    (lastOp = "q_remove_head" /\ rt.on /\ ~crashed) =>
        /\ ret # NULL
        /\ ret \in held
        /\ value[ret] = rt.s
        /\ RingNow = rt.before

\* The round trip has run on a queue that already held two elements.
InsertRemoveRoundTripWitness ==
    /\ rt.on
    /\ ~crashed
    /\ Len(rt.before) >= 2
    /\ lastOp = "q_remove_head"
    /\ value[ret] = rt.s

\* C4: when q_remove_head (q_remove_tail) returns on a non-empty queue, it
\* returns the first (last) element of the ring as it was before the call, the
\* ring holds the other elements in their order, the element returned is not
\* in it, is still allocated and is the caller's.
RemoveUnlinksBoundary ==
    (lastOp \in {"q_remove_head", "q_remove_tail"} /\ pre # <<>> /\ ~crashed) =>
        /\ ret = (IF lastOp = "q_remove_head" THEN pre[1] ELSE pre[Len(pre)])
        /\ RingNow = (IF lastOp = "q_remove_head" THEN Tail(pre)
                      ELSE SubSeq(pre, 1, Len(pre) - 1))
        /\ ret \notin SeqSet(RingNow)
        /\ live[ret]
        /\ value[ret] \in Texts
        /\ ret \in held
        /\ ~badFree

\* q_remove_tail has returned the last of three elements.
RemoveUnlinksBoundaryWitness ==
    /\ lastOp = "q_remove_tail"
    /\ Len(pre) = 3
    /\ ret = pre[3]
    /\ RingNow = <<pre[1], pre[2]>>

\* C5: when a buffer is passed and an element is unlinked, q_remove_head /
\* q_remove_tail write only buffer positions 0 .. bufsize-1, and leave at most
\* bufsize-1 characters of the element's string in it, for every bufsize.
CopyStaysInBuffer ==
    (lastOp \in {"q_remove_head", "q_remove_tail"} /\ sp /\ pre # <<>>) =>
        /\ wrLast <= bufsize - 1
        /\ Len(spText) <= bufsize - 1
        /\ ~crashed

\* The writes of C5 for the buffers that have room for the terminator.
CopyStaysInBufferFromOne ==
    (lastOp \in {"q_remove_head", "q_remove_tail"} /\ sp /\ pre # <<>>
     /\ bufsize >= 1) =>
        /\ wrLast = bufsize - 1
        /\ Len(spText) <= bufsize - 1
        /\ ~crashed

\* C6: q_insert_head / q_insert_tail return false when the queue is null, when
\* malloc fails or when strdup fails; a call that returns false leaves the ring
\* as it was, and every allocated element is in the ring or the caller's.
InsertFailureLeavesQueue ==
    lastOp \in {"q_insert_head", "q_insert_tail"} =>
        /\ (q = NULL \/ fault # "none" => ret = false)
        /\ (ret = false => RingNow = pre)
        /\ LiveElems = SeqSet(RingNow) \cup held
        /\ ~badFree

\* strdup has failed in a q_insert_tail on a non-empty queue.
InsertFailureLeavesQueueWitness ==
    /\ lastOp = "q_insert_tail"
    /\ fault = "strdup"
    /\ q # NULL
    /\ pre # <<>>
    /\ ret = false

\* C7: on a null or empty queue q_remove_head and q_remove_tail return NULL and
\* q_delete_mid returns false, writing nothing to the buffer, and the queue,
\* the heap and the caller's elements are as before the call, with q_size 0.
EmptyQueueNoOp ==
    [][ (/\ lastOp' \in {"q_remove_head", "q_remove_tail", "q_delete_mid"}
         /\ (q = NULL \/ list_empty(Heap, q)))
        => /\ ret' = (IF lastOp' = "q_delete_mid" THEN false ELSE NULL)
           /\ UNCHANGED <<q, next, prev, value, live, badFree, held>>
           /\ wrLast' = -1
           /\ ~crashed'
           /\ q_size(Heap, q) = 0 ]_vars

\* q_remove_head has been called with a buffer on an empty, non-null queue.
EmptyQueueNoOpWitness ==
    /\ lastOp = "q_remove_head"
    /\ q # NULL
    /\ pre = <<>>
    /\ sp
    /\ ret = NULL

\* C8: after q_sort, every two adjacent elements a, b of the ring, in
\* traversal order from sentinel.next, have strcmp(a.value, b.value) <= 0.
SortedAfterSort ==
    lastOp = "q_sort" =>
        \A i \in 1..(Len(RingNow) - 1) :
            strcmp(value[RingNow[i]], value[RingNow[i + 1]]) <= 0

\* q_sort has put three elements with three different strings, which were in
\* descending order, in ascending order.
SortedAfterSortWitness ==
    /\ lastOp = "q_sort"
    /\ Len(pre) = 3
    /\ RingNow = <<pre[3], pre[2], pre[1]>>
    /\ strcmp(value[pre[3]], value[pre[2]]) < 0
    /\ strcmp(value[pre[2]], value[pre[1]]) < 0

\* The heap after the step.
HeapNext == [next |-> next', prev |-> prev', value |-> value', live |-> live',
             badFree |-> badFree', hang |-> hang']

\* C9: q_swap, q_reverse and q_sort leave in the ring exactly the elements
\* that were in it, each once, with the string it had; no object is allocated
\* or freed.
ReorderOnly ==
    [][ lastOp' \in {"q_swap", "q_reverse", "q_sort"}
        => /\ SeqSet(Ring(HeapNext, q')) = SeqSet(RingNow)
           /\ Len(Ring(HeapNext, q')) = Len(RingNow)
           /\ Cardinality(SeqSet(Ring(HeapNext, q'))) = Len(RingNow)
           /\ UNCHANGED <<q, value, live, badFree, held>> ]_vars

\* q_sort has moved the last of three elements to the front.
ReorderOnlyWitness ==
    /\ lastOp = "q_sort"
    /\ Len(pre) = 3
    /\ Len(RingNow) = 3
    /\ RingNow[1] = pre[3]
    /\ SeqSet(RingNow) = SeqSet(pre)

\* How many members of the sequence sq equal t.
Count(t, sq) == Cardinality({i \in 1..Len(sq) : sq[i] = t})

\* C10: after q_delete_dup on a queue, the ring holds exactly the strings that
\* occurred once in it before the call, each once.
DeleteDupKeepsOnlyUnique ==
    [][ (lastOp' = "q_delete_dup" /\ q # NULL)
        => LET before == TextsOf(Heap, RingNow)
               after == TextsOf(HeapNext, Ring(HeapNext, q'))
           IN  /\ SeqSet(after) = {t \in SeqSet(before) : Count(t, before) = 1}
               /\ \A t \in SeqSet(after) : Count(t, after) = 1 ]_vars

\* The sequence sq without its i-th member.
Without(sq, i) == SubSeq(sq, 1, i - 1) \o SubSeq(sq, i + 1, Len(sq))

SwapPairs(sq) ==
    [i \in 1..Len(sq) |->
        IF i % 2 = 1 THEN (IF i + 1 <= Len(sq) THEN sq[i + 1] ELSE sq[i])
        ELSE sq[i - 1]]

\* C13: q_swap exchanges the elements at positions 2k and 2k+1 for every k
\* with 2k+1 < n and leaves a last unpaired element in place, so that an empty
\* or one-element queue is unchanged and ["a","b","c","d","e"] (the elements
\* at addresses 1 .. 5 in this order) becomes ["b","a","d","c","e"].
SwapExchangesPairs ==
    lastOp = "q_swap" =>
        /\ RingNow = SwapPairs(pre)
        /\ (Len(pre) <= 1 => RingNow = pre)
        /\ (pre = <<1, 2, 3, 4, 5>> =>
                TextsOf(Heap, RingNow) = << <<2>>, <<1>>, <<4>>, <<3>>, <<5>> >>)

\* q_swap has run on the five-element queue "a" .. "e".
SwapExchangesPairsWitness ==
    /\ lastOp = "q_swap"
    /\ pre = <<1, 2, 3, 4, 5>>
    /\ RingNow = <<2, 1, 4, 3, 5>>

\* The sequence sq back to front.
Reverse(sq) == [i \in 1..Len(sq) |-> sq[Len(sq) + 1 - i]]

\* C14: after q_reverse the ring holds the elements it held before the call
\* in the opposite order, and after a second q_reverse right after the first
\* it holds them in the order they had before the first.
ReverseIsInvolution ==
    lastOp = "q_reverse" =>
        /\ RingNow = Reverse(pre)
        /\ (rt.on => RingNow = rt.before)

\* q_reverse has run twice in a row on a queue of six elements.
ReverseIsInvolutionWitness ==
    /\ lastOp = "q_reverse"
    /\ rt.on
    /\ Len(rt.before) = 6
    /\ pre = Reverse(rt.before)
    /\ RingNow # pre

\* The strings of sq never decrease from one element to the next.
Ascending(sq) ==
    \A i \in 1..(Len(sq) - 1) : strcmp(value[sq[i]], value[sq[i + 1]]) <= 0

\* C15: q_sort on a queue whose strings are already in ascending order
\* (as they are after a first q_sort) leaves the sequence of strings, read
\* from the first element to the last, as it was, equal strings included.
SortIdempotent ==
    (lastOp = "q_sort" /\ Ascending(pre)) =>
        TextsOf(Heap, RingNow) = TextsOf(Heap, pre)

\* q_sort has run on three elements in ascending order, two with the same
\* string, and has moved elements while the strings read the same.
SortIdempotentWitness ==
    /\ lastOp = "q_sort"
    /\ Len(pre) = 3
    /\ Ascending(pre)
    /\ \E i \in 1..2 : value[pre[i]] = value[pre[i + 1]]
    /\ \E i \in 1..2 : value[pre[i]] # value[pre[i + 1]]
    /\ RingNow # pre
    /\ TextsOf(Heap, RingNow) = TextsOf(Heap, pre)

\* C17: when the heads of the two chains hold equal strings, mergeTwoLists
\* takes the head of the right chain first, and q_sort on a queue of two
\* elements with equal strings exchanges them.
MergeTieTakesRight ==
    /\ \A a, b \in SeqSet(RingNow) :
           (a # b /\ strcmp(value[a], value[b]) = 0) =>
               merge_node(Heap, a, b) = b
    /\ (lastOp = "q_sort" /\ Len(pre) = 2
            /\ strcmp(value[pre[1]], value[pre[2]]) = 0) =>
           RingNow = <<pre[2], pre[1]>>

\* q_sort has run on two elements with equal strings.
MergeTieTakesRightWitness ==
    /\ lastOp = "q_sort"
    /\ Len(pre) = 2
    /\ pre[1] # pre[2]
    /\ value[pre[1]] = value[pre[2]]
    /\ RingNow = <<pre[2], pre[1]>>

\* C16: q_free on a non-null queue releases each element linked in the ring,
\* each of them in use before and none released twice, and the sentinel, also
\* when the ring is empty; it leaves every other object, the elements handed
\* out by q_remove_head / q_remove_tail among them, as it was; q_free(NULL)
\* changes nothing.
FreeReleasesRing ==
    [][ lastOp' = "q_free" =>
          IF q = NULL THEN HeapNext = Heap
          ELSE /\ \A e \in SeqSet(RingNow) : live[e] /\ ~live'[e]
               /\ live[Sentinel] /\ ~live'[Sentinel]
               /\ \A e \in Elems \ SeqSet(RingNow) :
                      live'[e] = live[e] /\ value'[e] = value[e]
               /\ held \subseteq {e \in Elems : live'[e]}
               /\ badFree' = badFree
               /\ ~badFree' ]_vars

\* q_free has run on a queue of two elements while a removed element was
\* still held by the caller.
FreeReleasesRingWitness ==
    /\ lastOp = "q_free"
    /\ Len(pre) = 2
    /\ held # {}
    /\ ~live[Sentinel]
    /\ \A e \in SeqSet(pre) : ~live[e]
    /\ \A e \in held : live[e]

\* q_new immediately followed by q_free.
FreeEmptyQueueReached ==
    /\ lastOp = "q_free"
    /\ pre = <<>>
    /\ ~live[Sentinel]
    /\ LiveElems = {}

LifecycleSafe ==
    /\ ~badFree
    /\ \A e \in SeqSet(RingNow) : live[e]
    /\ (q # NULL => live[q])
    /\ held \subseteq LiveElems
    /\ held \cap SeqSet(RingNow) = {}
    /\ (lastOp \notin {"q_remove_head", "q_remove_tail"} =>
            LiveElems = SeqSet(RingNow) \cup held)
    /\ (lastOp \in {"q_delete_mid", "q_delete_dup", "q_free"} =>
            \A e \in SeqSet(pre) \ SeqSet(RingNow) : ~live[e])

\* q_delete_mid has released the middle element of a queue while the caller
\* held a removed element.
LifecycleSafeWitness ==
    /\ lastOp = "q_delete_mid"
    /\ ret = true
    /\ held # {}
    /\ Len(pre) = 2
    /\ RingNow = <<pre[1]>>
    /\ ~live[pre[2]]

\* The chain of the ring cut after its last element, as q_sort hands it to
\* mergesort.
SortChain == [Heap EXCEPT !.next[prev[q]] = NULL]

\* The place in sq of the element e.
IndexOf(e, sq) == CHOOSE i \in 1..Len(sq) : sq[i] = e

\* C20: on every queue the model reaches, the loops of q_delete_mid, q_swap,
\* q_reverse, q_sort and q_delete_dup come to their end within LoopFuel
\* steps, the fast/slow loop of q_delete_mid stops on an element of the ring,
\* and the fast/slow loop of mergesort cuts a chain of n >= 2 elements into
\* two chains of n \div 2 and n - n \div 2 elements, both non-empty and shorter.
RunsToCompletion ==
    /\ ~hang
    /\ q # NULL =>
        /\ ~q_delete_mid(Heap, q).h.hang
        /\ ~q_swap(Heap, q).hang
        /\ ~q_reverse(Heap, q).hang
        /\ ~q_sort(Heap, q).hang
        /\ ~q_delete_dup(Heap, q).h.hang
        /\ ~q_free(Heap, q).hang
        /\ (RingNow # <<>> =>
               LET m == q_delete_mid_loop(Heap, q, next[q], next[q], LoopFuel)
               IN  ~m.h.hang /\ m.at \in SeqSet(RingNow))
        /\ (Len(RingNow) >= 2 =>
               LET n == Len(RingNow)
                   loop == mergesort_loop(SortChain, next[q], next[q], LoopFuel)
               IN  /\ ~loop.hang
                   /\ loop.at \in SeqSet(RingNow)
                   /\ IndexOf(loop.at, RingNow) - 1 = n \div 2
                   /\ n \div 2 >= 1 /\ n \div 2 < n
                   /\ n - (n \div 2) >= 1 /\ n - (n \div 2) < n)

\* q_sort has come to its end on a queue of five elements that q_reverse had
\* put in descending order.
RunsToCompletionWitness ==
    /\ lastOp = "q_sort"
    /\ ~hang
    /\ Len(pre) = 5
    /\ RingNow = Reverse(pre)

====
